---- MODULE Spec2Model ----
(***************************************************************************)
(* Model of the human-key-value-text crate (src/src/lib.rs): the           *)
(* Serializer and Deserializer builders, their serialize / deserialize     *)
(* methods and the free functions to_string, serialize and parse.          *)
(*                                                                         *)
(* A Rust &str is modelled as a sequence of one-character strings, a       *)
(* (key, value) pair as a 2-tuple of such sequences, and an Option<T> as a *)
(* sequence of length 0 (None) or 1 (Some).                                *)
(***************************************************************************)
EXTENDS Naturals, Sequences, FiniteSets

VARIABLES pc, ser, de, source, out, data

vars == <<pc, ser, de, source, out, data>>

(***************************************************************************)
(* Bounds of the model and the input pools drawn from them.                *)
(***************************************************************************)
MaxSrcLen == 4
MaxPairs == 2
MaxExtra == 2

LF == "\n"
CR == "\r"

Chars == {"a", ":", " ", LF, CR}

Strs(n) == UNION {[1..k -> Chars] : k \in 0..n}

Sources == Strs(MaxSrcLen)

Separators == {<<":", " ">>, <<":">>, <<":", ":">>, <<>>}

Newlines == {<<LF>>, <<CR, LF>>, <<" ">>, <<>>}

DecoderNewlines == {<<CR, LF>>, <<" ">>}

KeyLists == {<<<<"a">>>>, <<<<"a">>, <<>>, <<"a">>>>}

RoundTripKeyLists == {<<<<"a">>, <<":">>>>, <<<<"a">>>>}

PairPool == {<< <<"a">>, <<>> >>, << <<"a">>, <<CR>> >>,
             << <<"a">>, <<LF>> >>, << <<":">>, <<"a">> >>}

ExtraPool == {<<>>, <<"a", ":", "a">>, <<":", "a">>}

SeqsUpTo(S, n) == UNION {[1..k -> S] : k \in 0..n}

(***************************************************************************)
(* String helpers (core::str).                                             *)
(***************************************************************************)
\* pat occurs in s at (1-based) position i
OccursAt(s, pat, i) ==
    /\ i >= 1
    /\ i + Len(pat) - 1 <= Len(s)
    /\ SubSeq(s, i, i + Len(pat) - 1) = pat

\* position of the first occurrence of pat in s, 0 when there is none;
\* the empty pattern matches at the very start, as core::str's searcher does
Find(s, pat) ==
    LET hits == {i \in 1..(Len(s) + 1) : OccursAt(s, pat, i)}
    IN  IF hits = {} THEN 0
        ELSE CHOOSE i \in hits : \A j \in hits : i <= j

\* position of the last occurrence of pat in s, 0 when there is none
FindLast(s, pat) ==
    LET hits == {i \in 1..(Len(s) + 1) : OccursAt(s, pat, i)}
    IN  IF hits = {} THEN 0
        ELSE CHOOSE i \in hits : \A j \in hits : i >= j

\* line.rsplitn(2, separator), parts in source order
Rsplitn2(line, separator) ==
    LET i == FindLast(line, separator)
    IN  IF i = 0 THEN <<line>>
        ELSE <<SubSeq(line, 1, i - 1),
               SubSeq(line, i + Len(separator), Len(line))>>

\* line.splitn(2, separator).collect()
Splitn2(line, separator) ==
    LET i == Find(line, separator)
    IN  IF i = 0 THEN <<line>>
        ELSE <<SubSeq(line, 1, i - 1),
               SubSeq(line, i + Len(separator), Len(line))>>

RECURSIVE SplitKeepEmpty(_)
\* s.split('\n') with each piece's terminator kept: a final empty piece
\* follows a trailing '\n'
SplitKeepEmpty(s) ==
    LET i == Find(s, <<LF>>)
    IN  IF i = 0 THEN <<s>>
        ELSE <<SubSeq(s, 1, i)>> \o SplitKeepEmpty(SubSeq(s, i + 1, Len(s)))

RECURSIVE SplitInclusive(_)
\* s.split_inclusive('\n'): pieces end after each '\n'; no empty last piece
SplitInclusive(s) ==
    IF s = <<>> THEN <<>>
    ELSE LET i == Find(s, <<LF>>)
         IN  IF i = 0 THEN <<s>>
             ELSE <<SubSeq(s, 1, i)>>
                      \o SplitInclusive(SubSeq(s, i + 1, Len(s)))

\* the closure of str::lines: strip one trailing "\n", then one trailing "\r"
StripLineEnding(piece) ==
    IF Len(piece) = 0 \/ piece[Len(piece)] # LF THEN piece
    ELSE LET l1 == SubSeq(piece, 1, Len(piece) - 1)
         IN  IF Len(l1) = 0 \/ l1[Len(l1)] # CR THEN l1
             ELSE SubSeq(l1, 1, Len(l1) - 1)

\* source.lines()
Lines(s) ==
    LET pieces == SplitInclusive(s)
    IN  [i \in 1..Len(pieces) |-> StripLineEnding(pieces[i])]

RECURSIVE SplitOn(_, _)
\* s.split_terminator(newline)
SplitOn(s, newline) ==
    IF s = <<>> THEN <<>>
    ELSE LET i == IF newline = <<>> THEN 0 ELSE Find(s, newline)
         IN  IF i = 0 THEN <<s>>
             ELSE <<SubSeq(s, 1, i - 1)>>
                      \o SplitOn(SubSeq(s, i + Len(newline), Len(s)), newline)

\* keys.contains(&x) that takes every key as listed
KeysContainsAny(keys, x) == TRUE

\* keys.contains(&x)
KeysContains(keys, x) == \E i \in 1..Len(keys) : keys[i] = x

(***************************************************************************)
(* Serializer (lib.rs 6-100).                                              *)
(***************************************************************************)
DEFAULT_SEPARATOR == <<":", " ">>
DEFAULT_NEWLINE == <<LF>>

None == <<>>
Some(x) == <<x>>

\* Serializer::new
Serializer_new ==
    [separator |-> DEFAULT_SEPARATOR, newline |-> DEFAULT_NEWLINE,
     pairs |-> None, extra_lines |-> None]

Serializer_separator(self, separator) == [self EXCEPT !.separator = separator]
Serializer_newline(self, newline) == [self EXCEPT !.newline = newline]
Serializer_pairs(self, pairs) == [self EXCEPT !.pairs = Some(pairs)]
Serializer_extra_lines(self, extra_lines) ==
    [self EXCEPT !.extra_lines = Some(extra_lines)]

RECURSIVE PushPairsNoSeparator(_, _, _, _)
\* the loop over pairs with the push of the separator left out
PushPairsNoSeparator(o, pairs, separator, newline) ==
    IF pairs = <<>> THEN o
    ELSE PushPairsNoSeparator(o \o Head(pairs)[1] \o Head(pairs)[2] \o newline,
                              Tail(pairs), separator, newline)

RECURSIVE PushPairs(_, _, _, _)
\* the loop over pairs: four push_str per pair
PushPairs(o, pairs, separator, newline) ==
    IF pairs = <<>> THEN o
    ELSE PushPairs(o \o Head(pairs)[1] \o separator \o Head(pairs)[2] \o newline,
                   Tail(pairs), separator, newline)

RECURSIVE PushExtraSkipEmpty(_, _, _)
\* the loop over extra_lines, leaving out empty lines
PushExtraSkipEmpty(o, lines, newline) ==
    IF lines = <<>> THEN o
    ELSE PushExtraSkipEmpty(IF Head(lines) = <<>> THEN o
                            ELSE o \o Head(lines) \o newline,
                            Tail(lines), newline)

RECURSIVE PushExtra(_, _, _)
\* the loop over extra_lines: two push_str per line
PushExtra(o, lines, newline) ==
    IF lines = <<>> THEN o
    ELSE PushExtra(o \o Head(lines) \o newline, Tail(lines), newline)

\* serialize with the two loops exchanged
SerializeExtraFirst(self) ==
    LET o1 == IF self.extra_lines # None
              THEN PushExtra(<<>>, self.extra_lines[1], self.newline)
              ELSE <<>>
    IN  IF self.pairs # None
        THEN PushPairs(o1, self.pairs[1], self.separator, self.newline)
        ELSE o1

\* Serializer::serialize
Serializer_serialize(self) ==
    LET o1 == IF self.pairs # None
              THEN PushPairs(<<>>, self.pairs[1], self.separator, self.newline)
              ELSE <<>>
    IN  IF self.extra_lines # None
        THEN PushExtra(o1, self.extra_lines[1], self.newline)
        ELSE o1

\* fn serializer
serializer == Serializer_new

\* fn to_string
to_string(iterable) == Serializer_serialize(Serializer_pairs(serializer, iterable))

\* fn serialize
serialize(pairs_iter, extra_iter) ==
    Serializer_serialize(
        Serializer_extra_lines(Serializer_pairs(serializer, pairs_iter), extra_iter))

(***************************************************************************)
(* Deserializer (lib.rs 102-192).                                          *)
(***************************************************************************)
\* Deserializer::new
Deserializer_new ==
    [separator |-> DEFAULT_SEPARATOR, newline |-> DEFAULT_NEWLINE, keys |-> <<>>]

Deserializer_separator(self, separator) == [self EXCEPT !.separator = separator]
Deserializer_newline(self, newline) == [self EXCEPT !.newline = newline]
Deserializer_keys(self, keys) == [self EXCEPT !.keys = keys]

\* Vec::new() twice
EmptyData == [pairs |-> <<>>, extra_lines |-> <<>>]

\* loop body that loses a line with no separator in it
ClassifyLineDropUnsplit(self, line, acc) ==
    LET splits == Splitn2(line, self.separator)
    IN  IF Len(splits) = 2 /\ KeysContains(self.keys, splits[1])
        THEN [acc EXCEPT !.pairs = Append(@, <<splits[1], splits[2]>>)]
        ELSE IF Len(splits) = 2
             THEN [acc EXCEPT !.extra_lines = Append(@, line)]
             ELSE acc

\* loop body that puts an extra line in front of the earlier ones
ClassifyLineExtraFront(self, line, acc) ==
    LET splits == Splitn2(line, self.separator)
    IN  IF Len(splits) = 2 /\ KeysContains(self.keys, splits[1])
        THEN [acc EXCEPT !.pairs = Append(@, <<splits[1], splits[2]>>)]
        ELSE [acc EXCEPT !.extra_lines = <<line>> \o @]

\* loop body that keeps only the first part of an extra line
ClassifyLineExtraHead(self, line, acc) ==
    LET splits == Splitn2(line, self.separator)
    IN  IF Len(splits) = 2 /\ KeysContains(self.keys, splits[1])
        THEN [acc EXCEPT !.pairs = Append(@, <<splits[1], splits[2]>>)]
        ELSE [acc EXCEPT !.extra_lines = Append(@, splits[1])]

\* the body of the loop over source.lines()
ClassifyLine(self, line, acc) ==
    LET splits == Splitn2(line, self.separator)
    IN  IF Len(splits) = 2 /\ KeysContains(self.keys, splits[1])
        THEN [acc EXCEPT !.pairs = Append(@, <<splits[1], splits[2]>>)]
        ELSE [acc EXCEPT !.extra_lines = Append(@, line)]

RECURSIVE ClassifyAll(_, _, _)
\* for line in lines { ... }
ClassifyAll(self, lines, acc) ==
    IF lines = <<>> THEN acc
    ELSE ClassifyAll(self, Tail(lines), ClassifyLine(self, Head(lines), acc))

\* deserialize that cuts the source at the configured newline
DeserializeOnNewline(self, src) ==
    ClassifyAll(self, SplitOn(src, self.newline), EmptyData)

\* Deserializer::deserialize
Deserializer_deserialize(self, src) == ClassifyAll(self, Lines(src), EmptyData)

\* fn deserializer
deserializer == Deserializer_new

\* fn parse
parse(keys, src) ==
    LET d == Deserializer_deserialize(Deserializer_keys(Deserializer_new, keys), src)
    IN  <<d.pairs, d.extra_lines>>

(***************************************************************************)
(* The decoder as a state machine: a Deserializer is configured by chained *)
(* setter calls and consumed by deserialize.                               *)
(***************************************************************************)
Init ==
    /\ pc = "build"
    /\ ser = Serializer_new
    /\ de = Deserializer_new
    /\ source = <<>>
    /\ out = <<>>
    /\ data = EmptyData

DeSeparator(separator) ==
    /\ pc = "build"
    /\ de' = Deserializer_separator(de, separator)
    /\ UNCHANGED <<pc, ser, source, out, data>>

DeNewline(newline) ==
    /\ pc = "build"
    /\ de' = Deserializer_newline(de, newline)
    /\ UNCHANGED <<pc, ser, source, out, data>>

DeKeys(keys) ==
    /\ pc = "build"
    /\ de' = Deserializer_keys(de, keys)
    /\ UNCHANGED <<pc, ser, source, out, data>>

CallDeserialize(src) ==
    /\ pc = "build"
    /\ source' = src
    /\ data' = Deserializer_deserialize(de, src)
    /\ pc' = "done"
    /\ UNCHANGED <<ser, de, out>>

\* parse(keys, src) builds its own Deserializer
CallParse(keys, src) ==
    /\ pc = "build"
    /\ de = Deserializer_new
    /\ de' = Deserializer_keys(Deserializer_new, keys)
    /\ source' = src
    /\ data' = [pairs |-> parse(keys, src)[1], extra_lines |-> parse(keys, src)[2]]
    /\ pc' = "done"
    /\ UNCHANGED <<ser, out>>

Next ==
    \/ \E s \in Separators : DeSeparator(s)
    \/ \E n \in DecoderNewlines : DeNewline(n)
    \/ \E k \in KeyLists : DeKeys(k)
    \/ \E src \in Sources : CallDeserialize(src)
    \/ \E k \in KeyLists, src \in Sources : CallParse(k, src)

Spec == Init /\ [][Next]_vars

(***************************************************************************)
(* The encoder as a state machine: a Serializer is configured by chained   *)
(* setter calls and consumed by serialize; the text it returns is then     *)
(* decoded by a Deserializer given the same separator and newline.         *)
(***************************************************************************)
SerSeparator(separator) ==
    /\ pc = "build"
    /\ ser' = Serializer_separator(ser, separator)
    /\ UNCHANGED <<pc, de, source, out, data>>

SerNewline(newline) ==
    /\ pc = "build"
    /\ ser' = Serializer_newline(ser, newline)
    /\ UNCHANGED <<pc, de, source, out, data>>

\* an iterator is handed over once
SerPairs(pairs) ==
    /\ pc = "build"
    /\ ser.pairs = None
    /\ ser' = Serializer_pairs(ser, pairs)
    /\ UNCHANGED <<pc, de, source, out, data>>

SerExtraLines(extra_lines) ==
    /\ pc = "build"
    /\ ser.extra_lines = None
    /\ ser' = Serializer_extra_lines(ser, extra_lines)
    /\ UNCHANGED <<pc, de, source, out, data>>

CallSerialize ==
    /\ pc = "build"
    /\ out' = Serializer_serialize(ser)
    /\ pc' = "serialized"
    /\ UNCHANGED <<ser, de, source, data>>

CallToString(pairs) ==
    /\ pc = "build"
    /\ ser = Serializer_new
    /\ ser' = Serializer_pairs(serializer, pairs)
    /\ out' = to_string(pairs)
    /\ pc' = "serialized"
    /\ UNCHANGED <<de, source, data>>

CallSerializeFn(pairs, extra_lines) ==
    /\ pc = "build"
    /\ ser = Serializer_new
    /\ ser' = Serializer_extra_lines(Serializer_pairs(serializer, pairs), extra_lines)
    /\ out' = serialize(pairs, extra_lines)
    /\ pc' = "serialized"
    /\ UNCHANGED <<de, source, data>>

\* deserializer().separator(..).newline(..).keys(..).deserialize(out)
DecodeOutput(keys) ==
    /\ pc = "serialized"
    /\ de' = Deserializer_keys(
                 Deserializer_newline(
                     Deserializer_separator(deserializer, ser.separator),
                     ser.newline),
                 keys)
    /\ source' = out
    /\ data' = Deserializer_deserialize(de', out)
    /\ pc' = "decoded"
    /\ UNCHANGED <<ser, out>>

SerNext ==
    \/ \E s \in Separators : SerSeparator(s)
    \/ \E n \in Newlines : SerNewline(n)
    \/ \E p \in SeqsUpTo(PairPool, MaxPairs) : SerPairs(p)
    \/ \E e \in SeqsUpTo(ExtraPool, MaxExtra) : SerExtraLines(e)
    \/ CallSerialize
    \/ \E p \in SeqsUpTo(PairPool, MaxPairs) : CallToString(p)
    \/ \E p \in SeqsUpTo(PairPool, MaxPairs), e \in SeqsUpTo(ExtraPool, MaxExtra) :
           CallSerializeFn(p, e)
    \/ \E k \in RoundTripKeyLists : DecodeOutput(k)

SerSpec == Init /\ [][SerNext]_vars

(***************************************************************************)
(* Vocabulary of the properties.                                           *)
(***************************************************************************)
Range(f) == {f[i] : i \in DOMAIN f}

Count(x, f) == Cardinality({i \in DOMAIN f : f[i] = x})

CountLF(s) == Count(LF, s)

EndsWith(s, c) == Len(s) > 0 /\ s[Len(s)] = c

\* the number of lines of a text: its terminators, plus an unterminated rest
NumLines(s) == CountLF(s) + (IF s # <<>> /\ ~EndsWith(s, LF) THEN 1 ELSE 0)

Contains(s, pat) == \E i \in 1..(Len(s) + 1) : OccursAt(s, pat, i)

Occurrences(line, sep) == {i \in 1..(Len(line) + 1) : OccursAt(line, sep, i)}

\* the text before position i and the text after the separator found there
Before(line, i) == SubSeq(line, 1, i - 1)
After(line, sep, i) == SubSeq(line, i + Len(sep), Len(line))

\* the line has a separator and what precedes its first occurrence is a key
IsPairLine(line, sep, keys) ==
    \E i \in Occurrences(line, sep) :
        /\ \A j \in Occurrences(line, sep) : i <= j
        /\ Before(line, i) \in Range(keys)

Join(p, sep) == p[1] \o sep \o p[2]

JoinAll(ps, sep) == [i \in DOMAIN ps |-> Join(ps[i], sep)]

RECURSIVE IsInterleaving(_, _, _)
\* all is a merge of xs and ys that keeps the order within each
IsInterleaving(all, xs, ys) ==
    IF all = <<>> THEN xs = <<>> /\ ys = <<>>
    ELSE \/ /\ xs # <<>>
            /\ Head(xs) = Head(all)
            /\ IsInterleaving(Tail(all), Tail(xs), ys)
         \/ /\ ys # <<>>
            /\ Head(ys) = Head(all)
            /\ IsInterleaving(Tail(all), xs, Tail(ys))

SrcLines == Lines(source)

(***************************************************************************)
(* Properties of the decoder, checked under Spec.                          *)
(***************************************************************************)
\* C3 Partition: after deserialize the number of pairs plus the number of
\* extra lines is the number of lines of the source, the result is a pair
\* of sequences (no error outcome), and the empty source gives two empty
\* sequences.
C3_Partition ==
    pc = "done" =>
        /\ Len(data.pairs) + Len(data.extra_lines) = NumLines(source)
        /\ DOMAIN data = {"pairs", "extra_lines"}
        /\ source = <<>> => data.pairs = <<>> /\ data.extra_lines = <<>>

C3_Witness ==
    /\ pc = "done"
    /\ Len(data.pairs) >= 1
    /\ Len(data.extra_lines) >= 1
    /\ \E i \in DOMAIN SrcLines : ~Contains(SrcLines[i], de.separator)

\* C4 Allow-list gating: a line becomes a pair exactly when it has a
\* separator and the text before the first one is an allow-listed key;
\* every other line goes whole to extra_lines; listing the keys twice
\* changes nothing.
C4_AllowListGating ==
    pc = "done" =>
        /\ Len(data.pairs) =
               Cardinality({i \in DOMAIN SrcLines :
                               IsPairLine(SrcLines[i], de.separator, de.keys)})
        /\ data.extra_lines =
               SelectSeq(SrcLines,
                         LAMBDA l : ~IsPairLine(l, de.separator, de.keys))
        /\ Deserializer_deserialize(
               Deserializer_keys(de, de.keys \o de.keys), source) = data

C4_Witness ==
    /\ pc = "done"
    /\ Len(data.pairs) >= 1
    /\ \E i \in DOMAIN data.extra_lines :
           /\ de.separator # <<>>
           /\ Contains(data.extra_lines[i], de.separator)

\* the number of pair lines among the first i lines
PairIndex(i) ==
    Cardinality({j \in 1..i : IsPairLine(SrcLines[j], de.separator, de.keys)})

\* C5 First-split: a line with several occurrences of the separator and an
\* allow-listed key before the first gives the pair (text before the first
\* occurrence, everything after it); no returned pair was cut at an
\* occurrence later than the first.
C5_FirstSplit ==
    pc = "done" =>
        /\ \A i \in DOMAIN SrcLines :
               LET occ == Occurrences(SrcLines[i], de.separator)
                   first == CHOOSE o \in occ : \A j \in occ : o <= j
               IN  (Cardinality(occ) >= 2
                      /\ Before(SrcLines[i], first) \in Range(de.keys))
                   => /\ PairIndex(i) \in DOMAIN data.pairs
                      /\ data.pairs[PairIndex(i)] =
                             <<Before(SrcLines[i], first),
                               After(SrcLines[i], de.separator, first)>>
        /\ \A n \in DOMAIN data.pairs :
               \A j \in 1..Len(data.pairs[n][1]) :
                   ~OccursAt(Join(data.pairs[n], de.separator), de.separator, j)

C5_Witness ==
    /\ pc = "done"
    /\ Len(de.separator) = 2
    /\ \E n \in DOMAIN data.pairs :
           /\ Contains(data.pairs[n][2], <<":">>)
           /\ Cardinality(Occurrences(Join(data.pairs[n], de.separator),
                                      de.separator)) >= 2

\* C6 Order preservation: the source's lines are a merge of the pairs
\* (key + separator + value) and the extra lines that keeps the order
\* within each of the two.
C6_OrderPreserved ==
    pc = "done" =>
        IsInterleaving(SrcLines, JoinAll(data.pairs, de.separator),
                       data.extra_lines)

C6_Witness ==
    /\ pc = "done"
    /\ Len(data.extra_lines) >= 2
    /\ data.extra_lines[1] # data.extra_lines[2]
    /\ Len(data.pairs) >= 1
    /\ IsPairLine(SrcLines[2], de.separator, de.keys)

\* every "\r" of the text is directly followed by "\n"
CROnlyInCRLF(s) ==
    \A i \in DOMAIN s : s[i] = CR => (i < Len(s) /\ s[i + 1] = LF)

WithoutCR(s) == SelectSeq(s, LAMBDA c : c # CR)

Terminators == {<<LF>>, <<CR, LF>>}

\* C8 as stated: an unterminated non-empty rest is one more line, a final
\* terminator adds no empty line, and appending one terminator to an
\* unterminated last line never changes the result.
C8_FinalLine_AsStated ==
    pc = "done" =>
        /\ (source # <<>> /\ ~EndsWith(source, LF)) =>
               /\ Len(data.pairs) + Len(data.extra_lines) = CountLF(source) + 1
               /\ \A t \in Terminators :
                      Deserializer_deserialize(de, source \o t) = data
        /\ EndsWith(source, LF) =>
               Len(data.pairs) + Len(data.extra_lines) = CountLF(source)

\* C8 amended: as C8, but appending a terminator is only claimed to leave
\* the result unchanged when the unterminated last line does not end in
\* "\r".
C8_FinalLine ==
    pc = "done" =>
        /\ (source # <<>> /\ ~EndsWith(source, LF)) =>
               /\ Len(data.pairs) + Len(data.extra_lines) = CountLF(source) + 1
               /\ ~EndsWith(source, CR) =>
                      \A t \in Terminators :
                          Deserializer_deserialize(de, source \o t) = data
        /\ EndsWith(source, LF) =>
               Len(data.pairs) + Len(data.extra_lines) = CountLF(source)

C8_Witness ==
    /\ pc = "done"
    /\ CountLF(source) >= 1
    /\ ~EndsWith(source, LF)
    /\ ~EndsWith(source, CR)
    /\ Len(data.pairs) >= 1
    /\ IsPairLine(SrcLines[Len(SrcLines)], de.separator, de.keys)

\* C10 Lossless per line: every returned key is allow-listed, and the bag of
\* key + separator + value texts and extra lines is the bag of source lines.
C10_Lossless ==
    pc = "done" =>
        /\ \A n \in DOMAIN data.pairs : data.pairs[n][1] \in Range(de.keys)
        /\ LET joined == JoinAll(data.pairs, de.separator)
           IN  \A l \in Range(SrcLines) \cup Range(joined)
                          \cup Range(data.extra_lines) :
                   Count(l, SrcLines)
                       = Count(l, joined) + Count(l, data.extra_lines)

C10_Witness ==
    /\ pc = "done"
    /\ de.separator = <<>>
    /\ Len(data.pairs) >= 2
    /\ data.pairs[1][2] # <<>>

(***************************************************************************)
(* Properties of the encoder and of decoding its output, checked under     *)
(* SerSpec.                                                                *)
(***************************************************************************)
\* the sequences handed to the Serializer; an unset one counts as empty
InPairs == IF ser.pairs = None THEN <<>> ELSE ser.pairs[1]
InExtra == IF ser.extra_lines = None THEN <<>> ELSE ser.extra_lines[1]

PairText(i) == InPairs[i][1] \o ser.separator \o InPairs[i][2] \o ser.newline
ExtraText(j) == InExtra[j] \o ser.newline

RECURSIVE PairTextLen(_)
\* total length of the texts of the first n pairs
PairTextLen(n) == IF n = 0 THEN 0 ELSE PairTextLen(n - 1) + Len(PairText(n))

RECURSIVE ExtraTextLen(_)
\* total length of the texts of the first n extra lines
ExtraTextLen(n) == IF n = 0 THEN 0 ELSE ExtraTextLen(n - 1) + Len(ExtraText(n))

\* C1 serialize returns key + separator + value + newline of each pair in
\* input order, then line + newline of each extra line in input order, and
\* nothing else: the i-th pair's text lies right after the texts of the
\* pairs before it, the j-th extra line's text right after all pairs' texts
\* and the extra lines before it.
C1_SerializeConcat ==
    pc \in {"serialized", "decoded"} =>
        /\ Len(out) = PairTextLen(Len(InPairs)) + ExtraTextLen(Len(InExtra))
        /\ \A i \in DOMAIN InPairs :
               SubSeq(out, PairTextLen(i - 1) + 1, PairTextLen(i)) = PairText(i)
        /\ \A j \in DOMAIN InExtra :
               SubSeq(out,
                      PairTextLen(Len(InPairs)) + ExtraTextLen(j - 1) + 1,
                      PairTextLen(Len(InPairs)) + ExtraTextLen(j))
                   = ExtraText(j)

C1_Witness ==
    /\ pc = "serialized"
    /\ Len(InPairs) = 2
    /\ InPairs[1] = InPairs[2]
    /\ Len(InExtra) >= 1
    /\ InExtra[1] = <<"a", ":", "a">>
    /\ ser.separator = <<>>
    /\ ser.newline = <<CR, LF>>

\* the precondition C2 and C9 put on the pairs: keys in the allow-list, no
\* separator and no newline inside a key or a value
PairsClean ==
    \A i \in DOMAIN InPairs :
        /\ InPairs[i][1] \in Range(de.keys)
        /\ \A x \in {InPairs[i][1], InPairs[i][2]} :
               /\ ~Contains(x, ser.separator)
               /\ ~Contains(x, ser.newline)

\* what the round trip needs beyond that: a newline the decoder's line
\* splitting recognises, and pair lines that hold no "\n", do not end in
\* "\r" and have no separator starting before the end of the key
PairsSplitBack ==
    /\ ser.newline \in Terminators
    /\ \A i \in DOMAIN InPairs :
           LET line == Join(InPairs[i], ser.separator)
           IN  /\ ~Contains(line, <<LF>>)
               /\ ~EndsWith(line, CR)
               /\ \A j \in 1..Len(InPairs[i][1]) :
                      ~OccursAt(line, ser.separator, j)

\* C2 as stated: clean pairs encoded without extra lines decode to the
\* same pairs, whatever the separator and the newline.
C2_RoundTrip_AsStated ==
    (pc = "decoded" /\ InExtra = <<>> /\ PairsClean) => data.pairs = InPairs

\* C2 amended: the round trip holds when, in addition, the newline is "\n"
\* or "\r\n" and every key + separator + value has no "\n", does not end in
\* "\r" and has no separator starting before the end of the key.
C2_RoundTrip ==
    (pc = "decoded" /\ InExtra = <<>> /\ PairsClean /\ PairsSplitBack)
        => data.pairs = InPairs

C2_Witness ==
    /\ pc = "decoded"
    /\ InExtra = <<>>
    /\ PairsClean
    /\ PairsSplitBack
    /\ Len(InPairs) = 2
    /\ InPairs[1] # InPairs[2]
    /\ ser.newline = <<CR, LF>>
    /\ Len(ser.separator) = 2

\* the precondition C9 puts on the extra lines
ExtraClean == \A j \in DOMAIN InExtra : ~Contains(InExtra[j], ser.newline)

\* what decoding them back needs beyond that: no "\n", no final "\r", and
\* no allow-listed key in front of a first separator
ExtraStayExtra ==
    \A j \in DOMAIN InExtra :
        /\ ~Contains(InExtra[j], <<LF>>)
        /\ ~EndsWith(InExtra[j], CR)
        /\ ~IsPairLine(InExtra[j], ser.separator, de.keys)

\* C9 as stated: clean pairs and newline-free extra lines decode to the
\* same pairs and the same extra lines.
C9_DecodeWithExtra_AsStated ==
    (pc = "decoded" /\ PairsClean /\ ExtraClean)
        => data.pairs = InPairs /\ data.extra_lines = InExtra

\* C9 amended: under the conditions of the amended C2, and when no extra
\* line holds "\n", ends in "\r" or starts with an allow-listed key followed
\* by the separator, the decoded text has the pairs' lines first and the
\* extra lines after them, and decoding returns both sequences unchanged.
C9_DecodeWithExtra ==
    (pc = "decoded" /\ PairsClean /\ ExtraClean /\ PairsSplitBack
                    /\ ExtraStayExtra)
        => /\ data.pairs = InPairs
           /\ data.extra_lines = InExtra
           /\ SrcLines = JoinAll(InPairs, ser.separator) \o InExtra

C9_Witness ==
    /\ pc = "decoded"
    /\ PairsClean
    /\ ExtraClean
    /\ PairsSplitBack
    /\ ExtraStayExtra
    /\ Len(InPairs) = 2
    /\ Len(InExtra) = 2
    /\ InExtra[1] # InExtra[2]
    /\ Contains(InExtra[1], ser.separator)

====
